---------------------------- MODULE Spec2Model ----------------------------
(***************************************************************************)
(* Novated lease calculator (src/src/App.tsx): the input form's state, the *)
(* parse of its text fields, the three scenario calculators and the        *)
(* ranking of their totals.                                                *)
(*                                                                         *)
(* JavaScript numbers are modelled as decimal floating-point values with   *)
(* Precision significant digits, rounded to nearest (ties to even) after   *)
(* every operation, with Infinity and NaN as in IEEE 754.  The sign of     *)
(* zero is not modelled.                                                   *)
(***************************************************************************)
EXTENDS Integers, Sequences, FiniteSets, TLC

(***************************************************************************)
(* Bounds of the model.                                                    *)
(***************************************************************************)
\* significant decimal digits kept by every arithmetic operation
Precision == 6

(***************************************************************************)
(* Numbers: [k, s, m, e] is s * m * 10^e for k = "num" (m = 0 or           *)
(* 10^(Precision-1) <= m < 10^Precision), s * Infinity for k = "inf", and  *)
(* NaN for k = "nan".                                                      *)
(***************************************************************************)
\* largest and smallest decimal exponent of a finite non-zero double
MaxExponent == 308
MinExponent == 0 - 324

Pow10Table == <<1, 10, 100, 1000, 10000, 100000, 1000000, 10000000,
                100000000, 1000000000>>

Pow10(n) == Pow10Table[n + 1]

\* the number of decimal digits of a positive integer
NumDigits(n) ==
  IF n < 100000
  THEN (IF n < 100 THEN (IF n < 10 THEN 1 ELSE 2)
        ELSE IF n < 1000 THEN 3 ELSE IF n < 10000 THEN 4 ELSE 5)
  ELSE (IF n < 10000000 THEN (IF n < 1000000 THEN 6 ELSE 7)
        ELSE IF n < 100000000 THEN 8 ELSE IF n < 1000000000 THEN 9 ELSE 10)

Min(a, b) == IF a < b THEN a ELSE b

Abs(i) == IF i < 0 THEN 0 - i ELSE i

NaN == [k |-> "nan", s |-> 1, m |-> 0, e |-> 0]

Infinity(s) == [k |-> "inf", s |-> s, m |-> 0, e |-> 0]

Zero == [k |-> "num", s |-> 1, m |-> 0, e |-> 0]

IsNaN(a) == a.k = "nan"

IsFinite(a) == a.k = "num"

IsZero(a) == a.k = "num" /\ a.m = 0

\* a finite value within the exponent range, else the overflow / underflow result
Finite(s, m, e) ==
  IF e + Precision - 1 > MaxExponent THEN Infinity(s)
  ELSE IF e + Precision - 1 < MinExponent THEN Zero
  ELSE [k |-> "num", s |-> s, m |-> m, e |-> e]

\* the number nearest to s * (n + sticky) * 10^e, where sticky stands for a
\* non-zero amount below one unit of n (n has more than Precision digits
\* whenever sticky is set)
Normalize(s, n, sticky, e) ==
  IF n = 0 THEN Zero
  ELSE LET d == NumDigits(n) IN
    IF d <= Precision
    THEN Finite(s, n * Pow10(Precision - d), e - (Precision - d))
    ELSE LET drop == d - Precision
             q    == n \div Pow10(drop)
             r    == n % Pow10(drop)
             half == 5 * Pow10(drop - 1)
             up   == r > half \/ (r = half /\ (sticky \/ q % 2 = 1))
             q2   == IF up THEN q + 1 ELSE q
         IN IF q2 = Pow10(Precision)
            THEN Finite(s, Pow10(Precision - 1), e + drop + 1)
            ELSE Finite(s, q2, e + drop)

\* an integer literal
Num(i) == Normalize(IF i < 0 THEN 0 - 1 ELSE 1, Abs(i), FALSE, 0)

\* a decimal literal n * 10^e
Dec(n, e) == Normalize(IF n < 0 THEN 0 - 1 ELSE 1, Abs(n), FALSE, e)

Neg(a) == IF IsNaN(a) \/ IsZero(a) THEN a ELSE [a EXCEPT !.s = 0 - a.s]

\* |a| < |b| for finite a, b
MagLt(a, b) ==
  IF b.m = 0 THEN FALSE
  ELSE IF a.m = 0 THEN TRUE
  ELSE a.e < b.e \/ (a.e = b.e /\ a.m < b.m)

\* a + b for finite non-zero a, b
AddFinite(a, b) ==
  LET hi   == IF a.e >= b.e THEN a ELSE b
      lo   == IF a.e >= b.e THEN b ELSE a
      diff == hi.e - lo.e
  IN IF diff > Precision + 1 THEN hi
     ELSE LET g  == Min(diff, 2)
              n1 == hi.m * Pow10(g)
              n2 == lo.m \div Pow10(diff - g)
              st == lo.m % Pow10(diff - g) # 0
              e  == hi.e - g
          IN IF hi.s = lo.s THEN Normalize(hi.s, n1 + n2, st, e)
             ELSE IF n1 = n2 /\ ~st THEN Zero
             ELSE IF n1 > n2 THEN Normalize(hi.s, n1 - n2 - (IF st THEN 1 ELSE 0), st, e)
             ELSE Normalize(lo.s, n2 - n1, FALSE, e)

\* JavaScript a + b
Add(a, b) ==
  IF IsNaN(a) \/ IsNaN(b) THEN NaN
  ELSE IF a.k = "inf" THEN (IF b.k = "inf" /\ b.s # a.s THEN NaN ELSE a)
  ELSE IF b.k = "inf" THEN b
  ELSE IF a.m = 0 THEN b
  ELSE IF b.m = 0 THEN a
  ELSE AddFinite(a, b)

\* JavaScript a - b
Sub(a, b) == Add(a, Neg(b))

\* JavaScript a * b
Mul(a, b) ==
  IF IsNaN(a) \/ IsNaN(b) THEN NaN
  ELSE IF a.k = "inf" \/ b.k = "inf"
       THEN (IF IsZero(a) \/ IsZero(b) THEN NaN ELSE Infinity(a.s * b.s))
  ELSE IF a.m = 0 \/ b.m = 0 THEN Zero
  ELSE LET H     == Pow10(4)
           a1    == a.m \div H
           a0    == a.m % H
           b1    == b.m \div H
           b0    == b.m % H
           c0    == a0 * b0
           c1    == a1 * b0 + a0 * b1
           c2    == a1 * b1
           low   == (c1 % H) * H + c0
           lo    == low % Pow10(8)
           hi    == c2 + (c1 \div H) + (low \div Pow10(8))
           drop  == Precision - 2
           n     == hi * Pow10(8 - drop) + (lo \div Pow10(drop))
           st    == lo % Pow10(drop) # 0
       IN Normalize(a.s * b.s, n, st, a.e + b.e + drop)

RECURSIVE DivLoop(_, _, _, _)
\* long division: k more quotient digits of r / m appended to q
DivLoop(q, r, m, k) ==
  IF k = 0 THEN <<q, r>>
  ELSE IF k = 1 THEN <<q * 10 + ((r * 10) \div m), (r * 10) % m>>
  ELSE DivLoop(q * 100 + ((r * 100) \div m), (r * 100) % m, m, k - 2)

\* JavaScript a / b
Div(a, b) ==
  IF IsNaN(a) \/ IsNaN(b) THEN NaN
  ELSE IF a.k = "inf" THEN (IF b.k = "inf" THEN NaN ELSE Infinity(a.s * b.s))
  ELSE IF b.k = "inf" THEN Zero
  ELSE IF b.m = 0 THEN (IF a.m = 0 THEN NaN ELSE Infinity(a.s))
  ELSE IF a.m = 0 THEN Zero
  ELSE LET qr == DivLoop(a.m \div b.m, a.m % b.m, b.m, Precision + 1)
       IN Normalize(a.s * b.s, qr[1], qr[2] # 0, a.e - b.e - (Precision + 1))

\* JavaScript a < b
Lt(a, b) ==
  IF IsNaN(a) \/ IsNaN(b) THEN FALSE
  ELSE IF a = b THEN FALSE
  ELSE IF a.k = "inf" THEN a.s < 0
  ELSE IF b.k = "inf" THEN b.s > 0
  ELSE IF a.s # b.s THEN (IF a.m = 0 THEN b.s > 0 ELSE a.s < 0)
  ELSE IF a.s > 0 THEN MagLt(a, b) ELSE MagLt(b, a)

\* JavaScript a === b
Eq(a, b) == ~IsNaN(a) /\ ~IsNaN(b) /\ a = b

\* JavaScript a <= b
Le(a, b) == Lt(a, b) \/ Eq(a, b)

\* a is finite with no fractional part
IsInteger(a) ==
  /\ IsFinite(a)
  /\ \/ a.m = 0
     \/ a.e >= 0
     \/ (0 - a.e < Precision /\ a.m % Pow10(0 - a.e) = 0)

\* the integer an IsInteger number of magnitude below 10^9 stands for
ToInt(a) ==
  IF a.m = 0 THEN 0
  ELSE IF a.e >= 0 THEN a.s * a.m * Pow10(a.e)
  ELSE a.s * (a.m \div Pow10(0 - a.e))

\* Math.round(a): the nearest integer, halves towards +Infinity
MathRound(a) ==
  IF ~IsFinite(a) \/ a.e >= 0 THEN a
  ELSE LET k  == 0 - a.e
           i  == IF k > Precision THEN 0 ELSE a.m \div Pow10(k)
           r  == IF k > Precision THEN 0 ELSE a.m % Pow10(k)
           up == /\ k <= Precision
                 /\ IF a.s > 0 THEN r >= 5 * Pow10(k - 1) ELSE r > 5 * Pow10(k - 1)
       IN Normalize(a.s, i + (IF up THEN 1 ELSE 0), FALSE, 0)

RECURSIVE PowNat(_, _)
\* x^n for a natural n, by squaring
PowNat(x, n) ==
  IF n = 0 THEN Num(1)
  ELSE IF n % 2 = 0 THEN LET h == PowNat(x, n \div 2) IN Mul(h, h)
  ELSE Mul(x, PowNat(x, n - 1))

\* Math.pow(x, y), for the exponents the calculators pass: integers of small
\* magnitude (a whole number of years or months), and, for any finite
\* exponent, the bases 1 and NaN
MathPow(x, y) ==
  CASE IsZero(y) -> Num(1)
    [] ~IsZero(y) /\ (IsNaN(x) \/ IsNaN(y)) -> NaN
    [] ~IsZero(y) /\ IsFinite(y) /\ x = Num(1) -> Num(1)
    [] ~IsZero(y) /\ IsInteger(y) /\ ~IsNaN(x) /\ x # Num(1) ->
         IF y.s > 0 THEN PowNat(x, ToInt(y))
         ELSE Div(Num(1), PowNat(x, 0 - ToInt(y)))

(***************************************************************************)
(* Text: a string is a sequence of one-character strings.                  *)
(***************************************************************************)
DigitChars == <<"0", "1", "2", "3", "4", "5", "6", "7", "8", "9">>

DigitSet == {"0", "1", "2", "3", "4", "5", "6", "7", "8", "9"}

IsDigit(c) == c \in DigitSet

DigitValues ==
  [c \in DigitSet |-> (CHOOSE i \in 1..10 : DigitChars[i] = c) - 1]

DigitValue(c) == DigitValues[c]

IsWhiteSpace(c) == c \in {" ", "\t", "\n"}

RECURSIVE SkipWhiteSpace(_, _)
\* the first position from p on that holds no white space
SkipWhiteSpace(t, p) ==
  IF p <= Len(t) /\ IsWhiteSpace(t[p]) THEN SkipWhiteSpace(t, p + 1) ELSE p

RECURSIVE DigitRun(_, _)
\* the number of consecutive digits from position p on
DigitRun(t, p) ==
  IF p <= Len(t) /\ IsDigit(t[p]) THEN 1 + DigitRun(t, p + 1) ELSE 0

\* t holds w at position p
StartsWith(t, p, w) ==
  /\ p + Len(w) - 1 <= Len(t)
  /\ \A i \in 1..Len(w) : t[p + i - 1] = w[i]

RECURSIVE AccDigits(_, _, _, _, _)
\* the digits ds read from position i on into <<n, sticky, dropped>>: n holds
\* the leading Precision + 2 significant digits, dropped counts the digits
\* left out and sticky tells whether one of them was non-zero
AccDigits(ds, i, n, sticky, dropped) ==
  IF i > Len(ds) THEN <<n, sticky, dropped>>
  ELSE IF n < Pow10(Precision + 1)
       THEN AccDigits(ds, i + 1, n * 10 + DigitValue(ds[i]), sticky, dropped)
       ELSE AccDigits(ds, i + 1, n, sticky \/ ds[i] # "0", dropped + 1)

RECURSIVE AccExponent(_, _, _)
\* the integer the digits ds stand for, saturating at 10000
AccExponent(ds, i, n) ==
  IF i > Len(ds) THEN n
  ELSE AccExponent(ds, i + 1, Min(10000, n * 10 + DigitValue(ds[i])))

\* parseFloat(t): the number the longest prefix of the trimmed text that is a
\* decimal literal stands for, NaN when there is none
parseFloat(t) ==
  LET p0      == SkipWhiteSpace(t, 1)
      hasSign == p0 <= Len(t) /\ t[p0] \in {"+", "-"}
      s       == IF hasSign /\ t[p0] = "-" THEN 0 - 1 ELSE 1
      p1      == IF hasSign THEN p0 + 1 ELSE p0
      ni      == DigitRun(t, p1)
      p2      == p1 + ni
      hasDot  == p2 <= Len(t) /\ t[p2] = "."
      nf      == IF hasDot THEN DigitRun(t, p2 + 1) ELSE 0
      p3      == IF hasDot THEN p2 + 1 + nf ELSE p2
      hasE    == p3 <= Len(t) /\ t[p3] \in {"e", "E"}
      hasES   == hasE /\ p3 + 1 <= Len(t) /\ t[p3 + 1] \in {"+", "-"}
      pe      == IF hasES THEN p3 + 2 ELSE p3 + 1
      ne      == IF hasE THEN DigitRun(t, pe) ELSE 0
      ex      == IF ne = 0 THEN 0
                 ELSE (IF hasES /\ t[p3 + 1] = "-" THEN 0 - 1 ELSE 1)
                      * AccExponent(SubSeq(t, pe, pe + ne - 1), 1, 0)
      ds      == SubSeq(t, p1, p1 + ni - 1) \o SubSeq(t, p2 + 1, p2 + nf)
      acc     == AccDigits(ds, 1, 0, FALSE, 0)
  IN IF StartsWith(t, p1, <<"I", "n", "f", "i", "n", "i", "t", "y">>) THEN Infinity(s)
     ELSE IF ni + nf = 0 THEN NaN
     ELSE Normalize(s, acc[1], acc[2], ex - nf + acc[3])

RECURSIVE NatToString(_)
\* the decimal digits of a natural number
NatToString(n) ==
  IF n < 10 THEN <<DigitChars[n + 1]>>
  ELSE NatToString(n \div 10) \o <<DigitChars[(n % 10) + 1]>>

RECURSIVE StripZeros(_)
\* a positive integer without its trailing zeros
StripZeros(n) == IF n % 10 = 0 THEN StripZeros(n \div 10) ELSE n

Zeros(n) == [i \in 1..n |-> "0"]

\* Number.prototype.toString(): the shortest digits that read back as a
NumberToString(a) ==
  IF IsNaN(a) THEN <<"N", "a", "N">>
  ELSE IF a.k = "inf"
       THEN (IF a.s < 0 THEN <<"-">> ELSE <<>>) \o <<"I", "n", "f", "i", "n", "i", "t", "y">>
  ELSE IF a.m = 0 THEN <<"0">>
  ELSE LET ds   == NatToString(StripZeros(a.m))
           k    == Len(ds)
           n    == a.e + Precision
           sign == IF a.s < 0 THEN <<"-">> ELSE <<>>
           ex   == n - 1
           body ==
             IF k <= n /\ n <= 21 THEN ds \o Zeros(n - k)
             ELSE IF 0 < n /\ n <= 21
                  THEN SubSeq(ds, 1, n) \o <<".">> \o SubSeq(ds, n + 1, k)
             ELSE IF 0 - 6 < n /\ n <= 0
                  THEN <<"0", ".">> \o Zeros(0 - n) \o ds
             ELSE <<ds[1]>> \o (IF k > 1 THEN <<".">> \o SubSeq(ds, 2, k) ELSE <<>>)
                  \o <<"e", IF ex < 0 THEN "-" ELSE "+">> \o NatToString(Abs(ex))
       IN sign \o body

(***************************************************************************)
(* The calculation engine (App.tsx, lines 27-132).                         *)
(***************************************************************************)
Keys == {"vehiclePrice", "leaseTermYears", "leaseMonthlyPreTax",
         "runningCostsAnnual", "providerFeesAnnual", "annualIncome",
         "loanRate", "savingsRate"}

defaultInputs ==
  [vehiclePrice       |-> Num(65000),
   leaseTermYears     |-> Num(4),
   leaseMonthlyPreTax |-> Num(950),
   runningCostsAnnual |-> Num(5500),
   providerFeesAnnual |-> Num(400),
   annualIncome       |-> Num(135000),
   loanRate           |-> Dec(90, 0 - 1),
   savingsRate        |-> Dec(45, 0 - 1)]

paymentNoResidual(principal, annualRatePct, months) ==
  LET monthlyRate == Div(Div(annualRatePct, Num(100)), Num(12))
  IN IF Eq(monthlyRate, Num(0))
     THEN Div(principal, months)
     ELSE Div(Mul(principal, monthlyRate),
              Sub(Num(1), MathPow(Add(Num(1), monthlyRate), Neg(months))))

\* residualPercentForTerm looking the term up without rounding it
residualPercentForTermUnrounded(leaseTermYears) ==
  LET key == leaseTermYears
  IN CASE key = Num(1) -> Num(65)
       [] key = Num(2) -> Dec(5625, 0 - 2)
       [] key = Num(3) -> Dec(4688, 0 - 2)
       [] key = Num(4) -> Dec(375, 0 - 1)
       [] key = Num(5) -> Dec(2813, 0 - 2)
       [] OTHER -> Dec(375, 0 - 1)

residualPercentForTerm(leaseTermYears) ==
  LET key == MathRound(leaseTermYears)
  IN CASE key = Num(1) -> Num(65)
       [] key = Num(2) -> Dec(5625, 0 - 2)
       [] key = Num(3) -> Dec(4688, 0 - 2)
       [] key = Num(4) -> Dec(375, 0 - 1)
       [] key = Num(5) -> Dec(2813, 0 - 2)
       [] OTHER -> Dec(375, 0 - 1)

\* marginalTaxRateForIncome with exclusive upper boundaries
marginalTaxRateForIncomeExclusive(annualIncome) ==
  IF Lt(annualIncome, Num(18200)) THEN Num(0)
  ELSE IF Lt(annualIncome, Num(45000)) THEN Dec(16, 0 - 2)
  ELSE IF Lt(annualIncome, Num(135000)) THEN Dec(3, 0 - 1)
  ELSE IF Lt(annualIncome, Num(190000)) THEN Dec(37, 0 - 2)
  ELSE Dec(45, 0 - 2)

\* marginalTaxRateForIncome with a 2% Medicare levy on top of every bracket
marginalTaxRateForIncomeWithLevy(annualIncome) ==
  Add(Dec(2, 0 - 2),
      IF Le(annualIncome, Num(18200)) THEN Num(0)
      ELSE IF Le(annualIncome, Num(45000)) THEN Dec(16, 0 - 2)
      ELSE IF Le(annualIncome, Num(135000)) THEN Dec(3, 0 - 1)
      ELSE IF Le(annualIncome, Num(190000)) THEN Dec(37, 0 - 2)
      ELSE Dec(45, 0 - 2))

marginalTaxRateForIncome(annualIncome) ==
  IF Le(annualIncome, Num(18200)) THEN Num(0)
  ELSE IF Le(annualIncome, Num(45000)) THEN Dec(16, 0 - 2)
  ELSE IF Le(annualIncome, Num(135000)) THEN Dec(3, 0 - 1)
  ELSE IF Le(annualIncome, Num(190000)) THEN Dec(37, 0 - 2)
  ELSE Dec(45, 0 - 2)

\* calculateNovated with the tax saving applied to the residual as well
calculateNovatedResidualTaxed(inputs) ==
  LET months          == Mul(inputs.leaseTermYears, Num(12))
      residualPercent == residualPercentForTerm(inputs.leaseTermYears)
      residual        == Mul(inputs.vehiclePrice, Div(residualPercent, Num(100)))
      gstSavings      == Mul(inputs.vehiclePrice, Dec(1, 0 - 1))
      leaseMonthly    == inputs.leaseMonthlyPreTax
      runningMonthly  == Div(inputs.runningCostsAnnual, Num(12))
      feesMonthly     == Div(inputs.providerFeesAnnual, Num(12))
      bundlePreTax    == Add(Add(leaseMonthly, runningMonthly), feesMonthly)
      taxRate         == marginalTaxRateForIncome(inputs.annualIncome)
      netMonthly      == Mul(bundlePreTax, Sub(Num(1), taxRate))
      total           == Add(Mul(netMonthly, months),
                             Mul(residual, Sub(Num(1), taxRate)))
  IN [monthly |-> netMonthly,
      total   |-> total,
      details |-> [leaseMonthly    |-> leaseMonthly,
                   runningMonthly  |-> runningMonthly,
                   feesMonthly     |-> feesMonthly,
                   residual        |-> residual,
                   gstSavings      |-> gstSavings,
                   residualPercent |-> residualPercent,
                   taxRate         |-> taxRate]]

calculateNovated(inputs) ==
  LET months          == Mul(inputs.leaseTermYears, Num(12))
      residualPercent == residualPercentForTerm(inputs.leaseTermYears)
      residual        == Mul(inputs.vehiclePrice, Div(residualPercent, Num(100)))
      gstSavings      == Mul(inputs.vehiclePrice, Dec(1, 0 - 1))
      leaseMonthly    == inputs.leaseMonthlyPreTax
      runningMonthly  == Div(inputs.runningCostsAnnual, Num(12))
      feesMonthly     == Div(inputs.providerFeesAnnual, Num(12))
      bundlePreTax    == Add(Add(leaseMonthly, runningMonthly), feesMonthly)
      taxRate         == marginalTaxRateForIncome(inputs.annualIncome)
      netMonthly      == Mul(bundlePreTax, Sub(Num(1), taxRate))
      total           == Add(Mul(netMonthly, months), residual)
  IN [monthly |-> netMonthly,
      total   |-> total,
      details |-> [leaseMonthly    |-> leaseMonthly,
                   runningMonthly  |-> runningMonthly,
                   feesMonthly     |-> feesMonthly,
                   residual        |-> residual,
                   gstSavings      |-> gstSavings,
                   residualPercent |-> residualPercent,
                   taxRate         |-> taxRate]]

\* calculateOutright in its simple variant, without the opportunity cost of
\* the cash
calculateOutrightSimple(inputs) ==
  LET totalRunning    == Mul(inputs.runningCostsAnnual, inputs.leaseTermYears)
      forgoneInterest == Num(0)
      total == Add(inputs.vehiclePrice, totalRunning)
  IN [monthly |-> Div(total, Mul(inputs.leaseTermYears, Num(12))),
      total   |-> total,
      details |-> [totalRunning |-> totalRunning, forgoneInterest |-> forgoneInterest]]

calculateOutright(inputs) ==
  LET totalRunning    == Mul(inputs.runningCostsAnnual, inputs.leaseTermYears)
      forgoneInterest ==
        Mul(inputs.vehiclePrice,
            Sub(MathPow(Add(Num(1), Div(inputs.savingsRate, Num(100))),
                        inputs.leaseTermYears),
                Num(1)))
      total == Add(Add(inputs.vehiclePrice, totalRunning), forgoneInterest)
  IN [monthly |-> Div(total, Mul(inputs.leaseTermYears, Num(12))),
      total   |-> total,
      details |-> [totalRunning |-> totalRunning, forgoneInterest |-> forgoneInterest]]

\* calculateLoan with a loan term of its own (5 years) instead of the lease term
calculateLoanOwnTerm(inputs) ==
  LET months         == Mul(Num(5), Num(12))
      monthlyPayment == paymentNoResidual(inputs.vehiclePrice, inputs.loanRate, months)
      runningMonthly == Div(inputs.runningCostsAnnual, Num(12))
      totalPayments  == Mul(Add(monthlyPayment, runningMonthly), months)
      interestEarned ==
        Mul(inputs.vehiclePrice,
            Sub(MathPow(Add(Num(1), Div(inputs.savingsRate, Num(100))),
                        inputs.leaseTermYears),
                Num(1)))
      total == Sub(totalPayments, interestEarned)
  IN [monthly |-> Add(monthlyPayment, runningMonthly),
      total   |-> total,
      details |-> [monthlyPayment |-> monthlyPayment,
                   runningMonthly |-> runningMonthly,
                   interestEarned |-> interestEarned]]

\* calculateLoan without the interest earned on the retained cash
calculateLoanNoInterestEarned(inputs) ==
  LET months         == Mul(inputs.leaseTermYears, Num(12))
      monthlyPayment == paymentNoResidual(inputs.vehiclePrice, inputs.loanRate, months)
      runningMonthly == Div(inputs.runningCostsAnnual, Num(12))
      totalPayments  == Mul(Add(monthlyPayment, runningMonthly), months)
      interestEarned ==
        Mul(inputs.vehiclePrice,
            Sub(MathPow(Add(Num(1), Div(inputs.savingsRate, Num(100))),
                        inputs.leaseTermYears),
                Num(1)))
      total == totalPayments
  IN [monthly |-> Add(monthlyPayment, runningMonthly),
      total   |-> total,
      details |-> [monthlyPayment |-> monthlyPayment,
                   runningMonthly |-> runningMonthly,
                   interestEarned |-> interestEarned]]

\* calculateLoan compounding the savings rate once a month instead of once a year
calculateLoanInterestByMonths(inputs) ==
  LET months         == Mul(inputs.leaseTermYears, Num(12))
      monthlyPayment == paymentNoResidual(inputs.vehiclePrice, inputs.loanRate, months)
      runningMonthly == Div(inputs.runningCostsAnnual, Num(12))
      totalPayments  == Mul(Add(monthlyPayment, runningMonthly), months)
      interestEarned ==
        Mul(inputs.vehiclePrice,
            Sub(MathPow(Add(Num(1), Div(inputs.savingsRate, Num(100))),
                        months),
                Num(1)))
      total == Sub(totalPayments, interestEarned)
  IN [monthly |-> Add(monthlyPayment, runningMonthly),
      total   |-> total,
      details |-> [monthlyPayment |-> monthlyPayment,
                   runningMonthly |-> runningMonthly,
                   interestEarned |-> interestEarned]]

calculateLoan(inputs) ==
  LET months         == Mul(inputs.leaseTermYears, Num(12))
      monthlyPayment == paymentNoResidual(inputs.vehiclePrice, inputs.loanRate, months)
      runningMonthly == Div(inputs.runningCostsAnnual, Num(12))
      totalPayments  == Mul(Add(monthlyPayment, runningMonthly), months)
      interestEarned ==
        Mul(inputs.vehiclePrice,
            Sub(MathPow(Add(Num(1), Div(inputs.savingsRate, Num(100))),
                        inputs.leaseTermYears),
                Num(1)))
      total == Sub(totalPayments, interestEarned)
  IN [monthly |-> Add(monthlyPayment, runningMonthly),
      total   |-> total,
      details |-> [monthlyPayment |-> monthlyPayment,
                   runningMonthly |-> runningMonthly,
                   interestEarned |-> interestEarned]]

(***************************************************************************)
(* The App component (App.tsx, lines 149-197).                             *)
(***************************************************************************)
\* parse without the Number.isFinite test
parseUnchecked(value) == parseFloat(value)

\* parse, the text-to-number conversion of the inputs memo
parse(value) ==
  LET n == parseFloat(value)
  IN IF IsFinite(n) THEN n ELSE Num(0)

\* the inputs memo: every field of inputValues parsed
parseInputs(values) == [key \in Keys |-> parse(values[key])]

\* the labels of comparisons, in encounter order
Labels == <<"Novated lease (net after tax)", "Buy outright", "Standard car loan">>

comparisonsOf(nov, out, ln) ==
  <<[label |-> Labels[1], result |-> nov],
    [label |-> Labels[2], result |-> out],
    [label |-> Labels[3], result |-> ln]>>

RECURSIVE reduceFromLastWins(_, _, _)
\* reduceFrom with a callback that compares with <= : ties pick the later one
reduceFromLastWins(cs, i, prev) ==
  IF i > Len(cs) THEN prev
  ELSE reduceFromLastWins(cs, i + 1,
                          IF Le(cs[i].result.total, prev.result.total)
                          THEN cs[i] ELSE prev)

RECURSIVE reduceFrom(_, _, _)
\* Array.prototype.reduce without an initial value, from element i on, with
\* the callback of best
reduceFrom(cs, i, prev) ==
  IF i > Len(cs) THEN prev
  ELSE reduceFrom(cs, i + 1,
                  IF Lt(cs[i].result.total, prev.result.total) THEN cs[i] ELSE prev)

bestOf(cs) == reduceFrom(cs, 2, cs[1])

(***************************************************************************)
(* State.  inputValues is the component's state (useState); inputs,        *)
(* novated, outright, loan and best are what its last render computed.     *)
(* fn, arg and ret record one call of a pure function of the engine on its *)
(* own: the function's name, its argument and the value it returned.       *)
(***************************************************************************)
VARIABLES inputValues, inputs, novated, outright, loan, best, fn, arg, ret

vars == <<inputValues, inputs, novated, outright, loan, best, fn, arg, ret>>

appVars == <<inputValues, inputs, novated, outright, loan, best>>

callVars == <<fn, arg, ret>>

\* a render whose result memos miss their dependency on inputs and keep the
\* results of the previous record
RenderStale(values) ==
  /\ inputs' = parseInputs(values)
  /\ novated' = calculateNovated(inputs)
  /\ outright' = calculateOutright(inputs)
  /\ loan' = calculateLoan(inputs)
  /\ best' = bestOf(comparisonsOf(novated', outright', loan'))

\* one render of App with the state values: the memos and best
Render(values) ==
  /\ inputs' = parseInputs(values)
  /\ novated' = calculateNovated(inputs')
  /\ outright' = calculateOutright(inputs')
  /\ loan' = calculateLoan(inputs')
  /\ best' = bestOf(comparisonsOf(novated', outright', loan'))

\* the comparison cards with the highlight decided by the total instead of
\* the label
cardsHighlightByTotal ==
  [i \in 1..3 |->
     LET c == comparisonsOf(novated, outright, loan)[i]
     IN [label       |-> c.label,
         highlighted |-> Eq(c.result.total, best.result.total),
         badge       |-> Eq(c.result.total, best.result.total),
         caption     |-> IF Eq(c.result.total, best.result.total)
                         THEN "Lowest total" ELSE "vs lowest",
         difference  |-> Sub(c.result.total, best.result.total)]]

\* the comparison cards as rendered: the card whose label is best.label has
\* the highlighted border and the badge; the caption is 'Lowest total' when
\* the card's total === best.result.total, else the difference 'vs lowest'
cards ==
  [i \in 1..3 |->
     LET c == comparisonsOf(novated, outright, loan)[i]
     IN [label       |-> c.label,
         highlighted |-> best.label = c.label,
         badge       |-> best.label = c.label,
         caption     |-> IF Eq(c.result.total, best.result.total)
                         THEN "Lowest total" ELSE "vs lowest",
         difference  |-> Sub(c.result.total, best.result.total)]]

\* the first render, with the seeded text of every field
InitApp ==
  /\ inputValues = [key \in Keys |-> NumberToString(defaultInputs[key])]
  /\ inputs = parseInputs(inputValues)
  /\ novated = calculateNovated(inputs)
  /\ outright = calculateOutright(inputs)
  /\ loan = calculateLoan(inputs)
  /\ best = bestOf(comparisonsOf(novated, outright, loan))

InitCall == fn = "none" /\ arg = <<>> /\ ret = <<>>

Init == InitApp /\ InitCall

\* the texts a change event may carry, per field (the seeded text is one of them)
InputTexts(key) ==
  {NumberToString(defaultInputs[key])} \cup
  CASE key = "vehiclePrice" -> {<<"7", "0", "0", "0", "0">>, <<"0">>, <<"-", "5">>}
    [] key = "leaseTermYears" -> {<<>>}
    [] key = "leaseMonthlyPreTax" -> {<<"a", "b", "c">>}
    [] key = "runningCostsAnnual" -> {<<"0">>}
    [] key = "providerFeesAnnual" -> {<<"I", "n", "f", "i", "n", "i", "t", "y">>}
    [] key = "annualIncome" -> {<<"1", "e", "9", "9", "9">>}
    [] key = "loanRate" -> {<<" ", ".", "0">>}
    [] key = "savingsRate" -> {<<"2", "5">>}

\* handleNumberChange without the spread of the previous texts: the new state
\* holds the changed field only
handleNumberChangeReplace(key, value) ==
  /\ inputValues' = [k \in Keys |-> IF k = key THEN value ELSE <<>>]
  /\ Render(inputValues')
  /\ UNCHANGED callVars

\* handleNumberChange(key)(value), and the render the state change causes
handleNumberChange(key, value) ==
  /\ inputValues' = [inputValues EXCEPT ![key] = value]
  /\ Render(inputValues')
  /\ UNCHANGED callVars

Next == \E key \in Keys : \E value \in InputTexts(key) : handleNumberChange(key, value)

Spec == Init /\ [][Next]_vars

(***************************************************************************)
(* Calls of the engine's pure functions on arguments drawn from bounded    *)
(* sets: fn = "none" between calls, and after a call fn, arg and ret hold  *)
(* the function called, its argument and its result.                       *)
(***************************************************************************)
\* lease terms are drawn in tenths of a year up to MaxTermYears either way
MaxTermYears == 7

IncomeSamples ==
  {0, 1, 18199, 18200, 18201, 30000, 44999, 45000, 45001, 90000, 134999,
   135000, 135001, 189999, 190000, 190001, 250000}

TermTenths == (0 - MaxTermYears * 10)..(MaxTermYears * 10)

TotalSamples == {Num(4800), Num(5000), Num(5200), Num(0 - 100), Infinity(1)}

\* valid input records: every field non-negative, a whole term of at least 1
InputSamples ==
  [vehiclePrice       : {Num(0), Num(65000), Num(70000)},
   leaseTermYears     : {Num(1), Num(2), Num(4), Num(6)},
   leaseMonthlyPreTax : {Num(0), Num(950)},
   runningCostsAnnual : {Num(0), Num(5500)},
   providerFeesAnnual : {Num(0), Num(400)},
   annualIncome       : {Num(18200), Num(135000), Num(200000)},
   loanRate           : {Num(0), Dec(90, 0 - 1)},
   savingsRate        : {Num(0), Dec(45, 0 - 1), Num(25)}]

CallMarginalTaxRateForIncome ==
  \E i \in IncomeSamples :
    /\ fn = "none"
    /\ fn' = "marginalTaxRateForIncome"
    /\ arg' = i
    /\ ret' = marginalTaxRateForIncome(Num(i))
    /\ UNCHANGED appVars

CallResidualPercentForTerm ==
  \E t \in TermTenths :
    /\ fn = "none"
    /\ fn' = "residualPercentForTerm"
    /\ arg' = t
    /\ ret' = residualPercentForTerm(Dec(t, 0 - 1))
    /\ UNCHANGED appVars

\* a Result with the given total
ResultOf(total) == [monthly |-> Num(0), total |-> total, details |-> <<>>]

CallBest ==
  \E t1 \in TotalSamples, t2 \in TotalSamples, t3 \in TotalSamples :
    /\ fn = "none"
    /\ fn' = "best"
    /\ arg' = <<t1, t2, t3>>
    /\ ret' = bestOf(comparisonsOf(ResultOf(t1), ResultOf(t2), ResultOf(t3)))
    /\ UNCHANGED appVars

\* the three scenario calculators on one input record
CallCalculate ==
  \E i \in InputSamples :
    /\ fn = "none"
    /\ fn' = "calculate"
    /\ arg' = i
    /\ ret' = [novated  |-> calculateNovated(i),
               outright |-> calculateOutright(i),
               loan     |-> calculateLoan(i)]
    /\ UNCHANGED appVars

\* the principals, annual rates (0, 9 and 1e-13 percent) and whole numbers of
\* months paymentNoResidual is called with
MaxMonths == 48

PaymentPrincipals == {Num(0), Num(65000)}

PaymentRates == {Num(0), Dec(90, 0 - 1), Dec(1, 0 - 13)}

PaymentMonths == {m \in 1..MaxMonths : m \in {1, 12, MaxMonths}}

CallPaymentNoResidual ==
  \E principal \in PaymentPrincipals, rate \in PaymentRates, m \in PaymentMonths :
    /\ fn = "none"
    /\ fn' = "paymentNoResidual"
    /\ arg' = <<principal, rate, Num(m)>>
    /\ ret' = paymentNoResidual(principal, rate, Num(m))
    /\ UNCHANGED appVars

Return ==
  /\ fn # "none"
  /\ fn' = "none" /\ arg' = <<>> /\ ret' = <<>>
  /\ UNCHANGED appVars

NextCall ==
  \/ CallMarginalTaxRateForIncome
  \/ CallResidualPercentForTerm
  \/ CallBest
  \/ CallCalculate
  \/ CallPaymentNoResidual
  \/ Return

PureSpec == Init /\ [][NextCall]_vars

(***************************************************************************)
(* Claims.                                                                 *)
(***************************************************************************)
\* C1: for every triple of totals (lease, outright, loan), the option chosen
\* as best has a total less than or equal to the other two, and among
\* options that share the minimum the first in encounter order is chosen.
C1_BestIsFirstMinimum ==
  fn = "best" =>
    \E k \in 1..3 :
      /\ ret.label = Labels[k]
      /\ ret.result.total = arg[k]
      /\ \A j \in 1..3 : Le(arg[k], arg[j])
      /\ \A j \in 1..(k - 1) : Lt(arg[k], arg[j])

\* C1 witness: outright and loan tie at the minimum and outright is chosen
C1_Witness ==
  /\ fn = "best"
  /\ arg = <<Num(5000), Num(4800), Num(4800)>>
  /\ ret.label = "Buy outright"

\* the step function of the 2024-25 brackets on whole dollars
BracketRate(income) ==
  IF income <= 18200 THEN Num(0)
  ELSE IF income <= 45000 THEN Dec(16, 0 - 2)
  ELSE IF income <= 135000 THEN Dec(30, 0 - 2)
  ELSE IF income <= 190000 THEN Dec(37, 0 - 2)
  ELSE Dec(45, 0 - 2)

\* C2: marginalTaxRateForIncome is the step function 0 / 0.16 / 0.30 / 0.37 /
\* 0.45 with inclusive upper boundaries 18200, 45000, 135000, 190000: each
\* boundary value resolves to the lower bracket.
C2_TaxBrackets ==
  fn = "marginalTaxRateForIncome" => ret = BracketRate(arg)

\* C2 witness: the boundary 45000 resolved to 16%
C2_Witness ==
  fn = "marginalTaxRateForIncome" /\ arg = 45000 /\ ret = Dec(16, 0 - 2)

\* the residual table on a term given in tenths of a year, rounded to the
\* nearest whole year (halves up)
ResidualTable(tenths) ==
  LET years == (tenths + 5) \div 10
  IN CASE years = 1 -> Num(65)
       [] years = 2 -> Dec(5625, 0 - 2)
       [] years = 3 -> Dec(4688, 0 - 2)
       [] years = 4 -> Dec(3750, 0 - 2)
       [] years = 5 -> Dec(2813, 0 - 2)
       [] OTHER -> Dec(3750, 0 - 2)

\* C3: residualPercentForTerm rounds the term to the nearest whole year and
\* returns 65, 56.25, 46.88, 37.5, 28.13 for rounded terms 1..5 and 37.5 for
\* every other rounded term.
C3_ResidualTable ==
  fn = "residualPercentForTerm" => ret = ResidualTable(arg)

\* C3 witness: the term 2.4 looked up as 2 years, 56.25
C3_Witness ==
  fn = "residualPercentForTerm" /\ arg = 24 /\ ret = Dec(5625, 0 - 2)

\* the engine's precondition: every field non-negative, a term of at least 1
Valid(i) ==
  /\ \A key \in Keys : Le(Num(0), i[key])
  /\ Le(Num(1), i.leaseTermYears)

\* C4: calculateNovated returns monthly = (leaseMonthly + running/12 +
\* fees/12) * (1 - taxRate) and total = monthly * (years * 12) + residual,
\* with residual = price * residualPercent / 100 added in full (not
\* tax-adjusted), and details holding exactly the values used.
C4_LeaseFormula ==
  fn = "calculate" /\ Valid(arg) =>
    LET r == ret.novated
        d == r.details
    IN /\ d.leaseMonthly = arg.leaseMonthlyPreTax
       /\ d.runningMonthly = Div(arg.runningCostsAnnual, Num(12))
       /\ d.feesMonthly = Div(arg.providerFeesAnnual, Num(12))
       /\ d.taxRate = marginalTaxRateForIncome(arg.annualIncome)
       /\ d.residualPercent = residualPercentForTerm(arg.leaseTermYears)
       /\ d.residual = Mul(arg.vehiclePrice, Div(d.residualPercent, Num(100)))
       /\ r.monthly = Mul(Add(Add(d.leaseMonthly, d.runningMonthly), d.feesMonthly),
                          Sub(Num(1), d.taxRate))
       /\ r.total = Add(Mul(r.monthly, Mul(arg.leaseTermYears, Num(12))), d.residual)

\* C4 witness: the default record, taxed at 30%, with its residual of 24375
\* added in full to a total of about 72815
C4_Witness ==
  /\ fn = "calculate"
  /\ arg = defaultInputs
  /\ ret.novated.details.taxRate = Dec(3, 0 - 1)
  /\ ret.novated.details.residual = Num(24375)
  /\ Lt(Num(72814), ret.novated.total)
  /\ Lt(ret.novated.total, Num(72816))

\* only the text of vehiclePrice changes in this step, from one positive
\* price to another
PriceChanges ==
  /\ \A key \in Keys \ {"vehiclePrice"} : inputValues'[key] = inputValues[key]
  /\ Lt(Num(0), inputs.vehiclePrice)
  /\ Lt(Num(0), inputs'.vehiclePrice)
  /\ inputs'.vehiclePrice # inputs.vehiclePrice

\* C5: the lease's own monthly payment is computed on the financed principal
\* vehiclePrice - gstSavings, so it follows the vehicle price: whenever the
\* price alone changes, the lease's monthly payment changes with it.
C5_LeasePaymentOnFinancedAmount ==
  [][PriceChanges =>
       novated'.details.leaseMonthly # novated.details.leaseMonthly]_vars

\* only the text of vehiclePrice changes in this step, to a larger price, and
\* the input record is valid before and after
PriceRises ==
  /\ \A key \in Keys \ {"vehiclePrice"} : inputValues'[key] = inputValues[key]
  /\ Valid(inputs)
  /\ Valid(inputs')
  /\ Lt(inputs.vehiclePrice, inputs'.vehiclePrice)

\* the growth of one unit of cash over the term at the savings rate
SavingsGrowth(i) ==
  MathPow(Add(Num(1), Div(i.savingsRate, Num(100))), i.leaseTermYears)

C7_CallerKeepsPrecondition == Valid(inputs)

\* C8: after any sequence of input changes every field handed to the engine
\* is a finite number, and a field whose text is empty or does not parse to a
\* finite number is handed over as exactly 0.
C8_InputsSanitized ==
  \A key \in Keys :
    /\ IsFinite(inputs[key])
    /\ (inputValues[key] = <<>> \/ ~IsFinite(parseFloat(inputValues[key])))
         => inputs[key] = Num(0)

\* C8 witness: an empty term, a non-numeric lease quote, an income that
\* overflows and provider fees of Infinity, all handed over as 0
C8_Witness ==
  /\ inputValues.leaseTermYears = <<>>
  /\ inputValues.leaseMonthlyPreTax = <<"a", "b", "c">>
  /\ inputValues.annualIncome = <<"1", "e", "9", "9", "9">>
  /\ inputValues.providerFeesAnnual = <<"I", "n", "f", "i", "n", "i", "t", "y">>
  /\ inputs.leaseTermYears = Num(0)
  /\ inputs.leaseMonthlyPreTax = Num(0)
  /\ inputs.annualIncome = Num(0)
  /\ inputs.providerFeesAnnual = Num(0)

\* C9: the three calculations use the same number of months, leaseTermYears
\* * 12: the lease total is its monthly cost over that many months plus the
\* residual, the outright monthly is its total spread over them and its
\* running costs cover the same years, and the loan is paid off and summed
\* over them.
C9_SameHorizon ==
  fn = "calculate" =>
    LET months == Mul(arg.leaseTermYears, Num(12))
    IN /\ ret.novated.total =
            Add(Mul(ret.novated.monthly, months), ret.novated.details.residual)
       /\ ret.outright.monthly = Div(ret.outright.total, months)
       /\ ret.outright.details.totalRunning =
            Mul(arg.runningCostsAnnual, arg.leaseTermYears)
       /\ ret.loan.details.monthlyPayment =
            paymentNoResidual(arg.vehiclePrice, arg.loanRate, months)
       /\ ret.loan.total =
            Sub(Mul(ret.loan.monthly, months), ret.loan.details.interestEarned)

\* C9 witness: a 2-year record, every scenario over 24 months
C9_Witness ==
  /\ fn = "calculate"
  /\ arg = [defaultInputs EXCEPT !.leaseTermYears = Num(2)]
  /\ ret.outright.monthly = Div(ret.outright.total, Num(24))
  /\ ret.loan.details.monthlyPayment =
       paymentNoResidual(Num(65000), Dec(90, 0 - 1), Num(24))
  /\ ret.novated.total =
       Add(Mul(ret.novated.monthly, Num(24)), ret.novated.details.residual)

\* C10: calculateLoan returns monthly = paymentNoResidual(price, loanRate,
\* months) + running/12 and total = monthly * months - interestEarned, where
\* interestEarned = price * ((1 + savingsRate/100)^years - 1) equals the
\* forgoneInterest calculateOutright reports for the same record.
C10_LoanFormula ==
  fn = "calculate" /\ Valid(arg) =>
    LET months == Mul(arg.leaseTermYears, Num(12))
        r      == ret.loan
    IN /\ r.monthly = Add(paymentNoResidual(arg.vehiclePrice, arg.loanRate, months),
                          Div(arg.runningCostsAnnual, Num(12)))
       /\ r.details.interestEarned =
            Mul(arg.vehiclePrice, Sub(SavingsGrowth(arg), Num(1)))
       /\ r.total = Sub(Mul(r.monthly, months), r.details.interestEarned)
       /\ r.details.interestEarned = ret.outright.details.forgoneInterest

\* C10 witness: the default record, whose loan total is its 48 payments less
\* a non-zero interest earned equal to the outright forgone interest
C10_Witness ==
  /\ fn = "calculate"
  /\ arg = defaultInputs
  /\ Lt(Num(0), ret.loan.details.interestEarned)
  /\ ret.loan.details.interestEarned = ret.outright.details.forgoneInterest
  /\ Lt(ret.loan.total, Mul(ret.loan.monthly, Num(48)))

\* C11: calculateOutright returns total = price + running * years +
\* forgoneInterest, with forgoneInterest = price * ((1 + savingsRate/100)^years
\* - 1), and monthly = total / (years * 12); with a savings rate of 0 the
\* total is the simple-variant value price + running * years.
C11_OutrightFormula ==
  fn = "calculate" /\ Valid(arg) =>
    LET r       == ret.outright
        running == Mul(arg.runningCostsAnnual, arg.leaseTermYears)
        forgone == Mul(arg.vehiclePrice, Sub(SavingsGrowth(arg), Num(1)))
    IN /\ r.details.totalRunning = running
       /\ r.details.forgoneInterest = forgone
       /\ r.total = Add(Add(arg.vehiclePrice, running), forgone)
       /\ r.monthly = Div(r.total, Mul(arg.leaseTermYears, Num(12)))
       /\ IsZero(arg.savingsRate) => r.total = Add(arg.vehiclePrice, running)

\* C11 witness: the default record with a savings rate of 0, whose forgone
\* interest is 0 and whose outright total is 65000 + 5500 * 4, spread over 48
\* months
C11_Witness ==
  /\ fn = "calculate"
  /\ arg = [defaultInputs EXCEPT !.savingsRate = Num(0)]
  /\ ret.outright.details.forgoneInterest = Num(0)
  /\ ret.outright.total = Num(87000)
  /\ ret.outright.monthly = Dec(18125, 0 - 1)

\* C12: paymentNoResidual is total on principal >= 0 and whole months >= 1:
\* at rate 0 it returns principal / months, and at every annual rate > 0 it
\* returns principal * r / (1 - (1 + r)^(-months)), r = rate/100/12, the
\* denominator being non-zero and the payment a finite number.
C12_PaymentTotalOnDomain ==
  fn = "paymentNoResidual" =>
    LET principal == arg[1]
        rate      == arg[2]
        months    == arg[3]
        r         == Div(Div(rate, Num(100)), Num(12))
        den       == Sub(Num(1), MathPow(Add(Num(1), r), Neg(months)))
    IN /\ IsFinite(ret)
       /\ IsZero(rate) => ret = Div(principal, months)
       /\ Lt(Num(0), rate) =>
            /\ ~IsZero(den)
            /\ ret = Div(Mul(principal, r), den)

\* the three displayed results are those of the current input texts
ResultsCurrent ==
  /\ inputs = parseInputs(inputValues)
  /\ novated = calculateNovated(parseInputs(inputValues))
  /\ outright = calculateOutright(parseInputs(inputValues))
  /\ loan = calculateLoan(parseInputs(inputValues))

\* C13: in every state reached by input changes each of the three displayed
\* results equals its calculator applied to the parsed current input texts
\* (whatever the other two results are), and a change that leaves the texts
\* as they were leaves the three results as they were.
C13_ResultsNeverStale ==
  /\ []ResultsCurrent
  /\ [][inputValues' = inputValues =>
          /\ novated' = novated
          /\ outright' = outright
          /\ loan' = loan]_vars

\* C13 witness: after the price was changed to 70000 the lease result shows
\* the residual of the new price and all three results are current
C13_Witness ==
  /\ inputValues.vehiclePrice = <<"7", "0", "0", "0", "0">>
  /\ novated.details.residual = Num(26250)
  /\ novated # calculateNovated(defaultInputs)
  /\ ResultsCurrent

\* C14: with running costs 0, provider fees 0 and an income taxed at 0 (at
\* most 18200) the lease result's monthly is exactly the pre-tax lease
\* payment and its total is leaseMonthly * months + residual.
C14_LeaseIdentityCase ==
  (/\ fn = "calculate"
   /\ IsZero(arg.runningCostsAnnual)
   /\ IsZero(arg.providerFeesAnnual)
   /\ Le(arg.annualIncome, Num(18200))) =>
    LET months   == Mul(arg.leaseTermYears, Num(12))
        residual == Mul(arg.vehiclePrice,
                        Div(residualPercentForTerm(arg.leaseTermYears), Num(100)))
    IN /\ ret.novated.monthly = arg.leaseMonthlyPreTax
       /\ ret.novated.total = Add(Mul(arg.leaseMonthlyPreTax, months), residual)

\* C14 witness: the default record with no running costs, no fees and an
\* income of 18200: monthly 950, total 950 * 48 + 24375
C14_Witness ==
  /\ fn = "calculate"
  /\ arg = [defaultInputs EXCEPT !.runningCostsAnnual = Num(0),
                                 !.providerFeesAnnual = Num(0),
                                 !.annualIncome = Num(18200)]
  /\ ret.novated.monthly = Num(950)
  /\ ret.novated.total = Num(69975)

\* C15: for vehiclePrice 65000 and leaseTermYears 4 the lease scenario uses 48
\* months, a residual of 24375 and a GST saving of 6500, and its lease payment
\* is based on the financed principal 65000 - 6500 = 58500: on the financed
\* principal of another price (63000 for a price of 70000) the payment is
\* another.
C15_WorkedExample ==
  (/\ fn = "calculate"
   /\ arg.vehiclePrice = Num(65000)
   /\ arg.leaseTermYears = Num(4)) =>
    LET d == ret.novated.details
    IN /\ ret.novated.total = Add(Mul(ret.novated.monthly, Num(48)), d.residual)
       /\ d.residual = Num(24375)
       /\ d.gstSavings = Num(6500)
       /\ Sub(arg.vehiclePrice, d.gstSavings) = Num(58500)
       /\ d.leaseMonthly #
            calculateNovated([arg EXCEPT !.vehiclePrice = Num(70000)]).details.leaseMonthly

\* C16: an input change sets the text of its field to its value and leaves
\* the text of every other field unchanged, so that every field holds the
\* value of the last change made to it, or its default text if there was none.
C16_InputChangeFrame ==
  [][\E key \in Keys : \E value \in InputTexts(key) :
       /\ inputValues'[key] = value
       /\ \A other \in Keys \ {key} : inputValues'[other] = inputValues[other]]_vars

\* C16 witness: after changes of the price and of the savings rate these two
\* fields hold the values set and every other field its default text
C16_Witness ==
  /\ inputValues.vehiclePrice = <<"7", "0", "0", "0", "0">>
  /\ inputValues.savingsRate = <<"2", "5">>
  /\ \A other \in Keys \ {"vehiclePrice", "savingsRate"} :
       inputValues[other] = NumberToString(defaultInputs[other])

\* the three totals on display
Totals == <<novated.total, outright.total, loan.total>>

\* all three totals are numbers (none is NaN)
NumericTotals == \A i \in 1..3 : ~IsNaN(Totals[i])

\* C17: in every reachable state with three numeric totals exactly one card
\* is highlighted, the one whose label is best.label, and its caption reads
\* 'Lowest total'; a card carries that caption if and only if its total
\* equals the best total; so on a tie several cards carry the caption while
\* only the first of them is highlighted.
C17_HighlightConsistency ==
  NumericTotals =>
    /\ Cardinality({i \in 1..3 : cards[i].highlighted}) = 1
    /\ \A i \in 1..3 :
         /\ cards[i].highlighted <=> cards[i].label = best.label
         /\ cards[i].highlighted => cards[i].caption = "Lowest total"
         /\ cards[i].caption = "Lowest total" <=> Totals[i] = best.result.total
         /\ cards[i].highlighted =>
              \A j \in 1..3 : Totals[j] = Totals[i] => i <= j
    /\ \A i \in 1..3 : ~Lt(Totals[i], best.result.total)

\* C17 witness: all three totals tie at 0 (price 0, no running costs, a lease
\* quote and fees that parse to 0): every card carries the caption and only
\* the first, the novated lease, is highlighted
C17_Witness ==
  /\ NumericTotals
  /\ Totals[1] = Totals[2]
  /\ Totals[2] = Totals[3]
  /\ \A i \in 1..3 : cards[i].caption = "Lowest total"
  /\ cards[1].highlighted
  /\ ~cards[2].highlighted
  /\ ~cards[3].highlighted

=============================================================================
